---- MODULE Spec2Model ----
(***************************************************************************)
(* A model of pcm.py, the PAM configuration manager: the PAMManager class  *)
(* (backup_config, restore_backup, parse_pam_line, get_service_rules,      *)
(* add_rule, remove_rule, list_services) and the dispatch in main().       *)
(*                                                                         *)
(* File contents and file names are sequences of one-character strings, so *)
(* that reading, splitting, joining and writing are computed character by  *)
(* character as Python computes them.                                      *)
(***************************************************************************)
EXTENDS Integers, Sequences, FiniteSets, TLC

VARIABLES
    pam_dir,      \* self.pam_dir on disk: entry name -> [kind, data]
    backup_dir,   \* self.backup_dir on disk: [exists, tree]
    out,          \* the last invocation run alone: its arguments, message and result
    procs,        \* concurrent invocations: pid -> position and local variables
    writers       \* pids in the order in which their writes reached the file

vars == <<pam_dir, backup_dir, out, procs, writers>>

-----------------------------------------------------------------------------
(* Bounds of the model *)

MaxTextLen == 6     \* every file text of at most this many characters is an initial state
MaxFileLen == 14    \* add_rule is not explored on files that would grow beyond this
MaxEntries == 2     \* entries of the configuration directory in an initial state

-----------------------------------------------------------------------------
(* Characters and strings *)

\* str.split() / str.strip() without arguments: the whitespace class
IsSpace(c) == c \in {" ", "\t", "\n", "\r"}

\* ord(c), as far as sorted() needs it to compare names
Ord(c) ==
    CASE c = "." -> 46
      [] c = "#" -> 35
      [] c = "a" -> 97
      [] c = "b" -> 98
      [] c = "l" -> 108
      [] c = "s" -> 115
      [] c = "u" -> 117

\* str.__lt__: lexicographic order by code point
RECURSIVE StrLess(_, _)
StrLess(x, y) ==
    IF y = <<>> THEN FALSE
    ELSE IF x = <<>> THEN TRUE
    ELSE IF Head(x) # Head(y) THEN Ord(Head(x)) < Ord(Head(y))
    ELSE StrLess(Tail(x), Tail(y))

\* str.startswith(prefix)
startswith(s, prefix) ==
    Len(s) >= Len(prefix) /\ SubSeq(s, 1, Len(prefix)) = prefix

\* `m in l` on strings: m occurs in l as a contiguous substring
Contains(l, m) ==
    \E i \in 0..(Len(l) - Len(m)) : SubSeq(l, i + 1, i + Len(m)) = m

\* str.strip(): leading and trailing whitespace removed
RECURSIVE lstrip(_)
lstrip(s) ==
    IF s # <<>> /\ IsSpace(Head(s)) THEN lstrip(Tail(s)) ELSE s

RECURSIVE rstrip(_)
rstrip(s) ==
    IF s # <<>> /\ IsSpace(s[Len(s)]) THEN rstrip(SubSeq(s, 1, Len(s) - 1)) ELSE s

strip(s) == rstrip(lstrip(s))

\* str.split(): the maximal runs of non-whitespace characters, in order
RECURSIVE SplitFrom(_, _)
SplitFrom(s, cur) ==
    IF s = <<>> THEN (IF cur = <<>> THEN <<>> ELSE <<cur>>)
    ELSE IF IsSpace(Head(s))
         THEN (IF cur = <<>> THEN <<>> ELSE <<cur>>) \o SplitFrom(Tail(s), <<>>)
         ELSE SplitFrom(Tail(s), Append(cur, Head(s)))

split(s) == SplitFrom(s, <<>>)

\* sep.join(parts)
RECURSIVE join(_, _)
join(sep, parts) ==
    IF parts = <<>> THEN <<>>
    ELSE IF Len(parts) = 1 THEN parts[1]
    ELSE parts[1] \o sep \o join(sep, Tail(parts))

-----------------------------------------------------------------------------
(* Text-mode file I/O *)

\* open(path, 'r'): universal newlines, "\r\n" and a lone "\r" are read as "\n"
RECURSIVE TextRead(_)
TextRead(bytes) ==
    IF bytes = <<>> THEN <<>>
    ELSE IF Head(bytes) = "\r"
         THEN <<"\n">> \o TextRead(IF Len(bytes) > 1 /\ bytes[2] = "\n"
                                    THEN Tail(Tail(bytes))
                                    ELSE Tail(bytes))
         ELSE <<Head(bytes)>> \o TextRead(Tail(bytes))

\* the lines of a text, each keeping its "\n"; a last line may lack it
RECURSIVE LinesFrom(_, _)
LinesFrom(text, cur) ==
    IF text = <<>> THEN (IF cur = <<>> THEN <<>> ELSE <<cur>>)
    ELSE IF Head(text) = "\n"
         THEN <<Append(cur, "\n")>> \o LinesFrom(Tail(text), <<>>)
         ELSE LinesFrom(Tail(text), Append(cur, Head(text)))

\* f.readlines(), and the iteration `for line in f`
readlines(bytes) == LinesFrom(TextRead(bytes), <<>>)

\* f.writelines(lines) on a file opened with 'w': the lines concatenated, no
\* separator added ("\n" is written as os.linesep, which is "\n" here)
RECURSIVE writelines(_)
writelines(lines) ==
    IF lines = <<>> THEN <<>> ELSE Head(lines) \o writelines(Tail(lines))

-----------------------------------------------------------------------------
(* Rules *)

None == [type |-> <<>>, control |-> <<>>, module |-> <<>>, args |-> <<>>]

\* a faulty parse_pam_line: the test for a comment is missing
parse_pam_line_no_comment_test(line) ==
    LET parts == split(strip(line)) IN
    IF Len(parts) < 3
    THEN None
    ELSE [type    |-> parts[1],
          control |-> parts[2],
          module  |-> parts[3],
          args    |-> IF Len(parts) > 3
                      THEN join(<<" ">>, SubSeq(parts, 4, Len(parts)))
                      ELSE <<>>]

parse_pam_line(line) ==
    LET parts == split(strip(line)) IN
    IF Len(parts) < 3 \/ startswith(parts[1], <<"#">>)
    THEN None
    ELSE [type    |-> parts[1],
          control |-> parts[2],
          module  |-> parts[3],
          args    |-> IF Len(parts) > 3
                      THEN join(<<" ">>, SubSeq(parts, 4, Len(parts)))
                      ELSE <<>>]

\* the loop of get_service_rules over the lines of the file
RECURSIVE RulesOf(_)
RulesOf(lines) ==
    IF lines = <<>> THEN <<>>
    ELSE LET parsed == parse_pam_line(Head(lines)) IN
         (IF parsed # None THEN <<parsed>> ELSE <<>>) \o RulesOf(Tail(lines))

\* the line add_rule builds
new_rule(rule_type, control, module, args) ==
    rule_type \o <<"\t">> \o control \o <<"\t">> \o module
        \o (IF args # <<>> THEN <<"\t">> \o args ELSE <<>>)
        \o <<"\n">>

\* lines.insert(0, new_rule) / lines.append(new_rule)
InsertRule(lines, rule, position) ==
    IF position = "start" THEN <<rule>> \o lines ELSE Append(lines, rule)

\* [l for l in lines if module not in l]
KeepLines(lines, module) ==
    SelectSeq(lines, LAMBDA l : ~Contains(l, module))

-----------------------------------------------------------------------------
(* The file system *)

File(data) == [kind |-> "file", data |-> data]
Dir == [kind |-> "dir", data |-> <<>>]

\* Path.exists() of self.pam_dir / service
exists(dir, service) == service \in DOMAIN dir

\* Path.is_file()
is_file(dir, name) == dir[name].kind = "file"

\* a directory with the file `service` holding `data`
WriteFile(dir, service, data) ==
    [n \in DOMAIN dir \cup {service} |-> IF n = service THEN File(data) ELSE dir[n]]

\* shutil.copytree(src, dst) into a destination that does not exist
copytree(src) == [n \in DOMAIN src |-> src[n]]

\* a faulty restore: the copy is made over the live directory, which was not removed
rmtree_copytree_no_rmtree(live, snapshot) ==
    [n \in DOMAIN live \cup DOMAIN snapshot |->
        IF n \in DOMAIN snapshot THEN snapshot[n] ELSE live[n]]

\* shutil.rmtree(self.pam_dir) followed by shutil.copytree(self.backup_dir, self.pam_dir)
rmtree_copytree(live, snapshot) == copytree(snapshot)

\* the orders in which Path.iterdir() may yield the entries of a directory
iterdir(dir) ==
    LET n == Cardinality(DOMAIN dir) IN
    {o \in [1..n -> DOMAIN dir] : \A i, j \in 1..n : i # j => o[i] # o[j]}

\* list_services, for one order of iterdir()
list_services(dir, order) ==
    SelectSeq(order, LAMBDA f : is_file(dir, f) /\ ~startswith(f, <<".">>))

\* a faulty sorted: the services are printed in the order list_services gave them
sorted_as_listed(xs) == xs

\* sorted(services) in main()
RECURSIVE sorted(_)
sorted(xs) ==
    IF xs = <<>> THEN <<>>
    ELSE LET rest == sorted(Tail(xs))
             k == Cardinality({i \in 1..Len(rest) : ~StrLess(Head(xs), rest[i])})
         IN SubSeq(rest, 1, k) \o <<Head(xs)>> \o SubSeq(rest, k + 1, Len(rest))

\* get_service_rules on a service file that exists
get_service_rules(dir, service) == RulesOf(readlines(dir[service].data))

-----------------------------------------------------------------------------
(* One invocation of the tool, run alone: main() dispatching to PAMManager *)

\* the argparse namespace of an invocation
Req(action, service, rule_type, control, module, args, position) ==
    [action |-> action, service |-> service, type |-> rule_type, control |-> control,
     module |-> module, args |-> args, position |-> position]

Said(req, msg, val) == [req |-> req, msg |-> msg, val |-> val]

Idle == Said(Req("", <<>>, <<>>, <<>>, <<>>, <<>>, "end"), "", <<>>)

\* a faulty backup_config: the snapshot is taken whether or not one exists
backup_config_overwrites ==
    /\ backup_dir' = [exists |-> TRUE, tree |-> copytree(pam_dir)]
    /\ out' = Said(Req("backup", <<>>, <<>>, <<>>, <<>>, <<>>, "end"), "Backup created", <<>>)
    /\ UNCHANGED <<pam_dir, procs, writers>>

backup_config ==
    LET req == Req("backup", <<>>, <<>>, <<>>, <<>>, <<>>, "end") IN
    /\ IF ~backup_dir.exists
       THEN /\ backup_dir' = [exists |-> TRUE, tree |-> copytree(pam_dir)]
            /\ out' = Said(req, "Backup created", <<>>)
       ELSE /\ UNCHANGED backup_dir
            /\ out' = Said(req, "Backup already exists", <<>>)
    /\ UNCHANGED <<pam_dir, procs, writers>>

\* a faulty restore_backup: the live directory is removed before the backup is looked for
restore_backup_rmtree_first ==
    LET req == Req("restore", <<>>, <<>>, <<>>, <<>>, <<>>, "end") IN
    /\ IF backup_dir.exists
       THEN /\ pam_dir' = rmtree_copytree(pam_dir, backup_dir.tree)
            /\ out' = Said(req, "Configuration restored from backup", <<>>)
       ELSE /\ pam_dir' = <<>>
            /\ out' = Said(req, "No backup found", <<>>)
    /\ UNCHANGED <<backup_dir, procs, writers>>

restore_backup ==
    LET req == Req("restore", <<>>, <<>>, <<>>, <<>>, <<>>, "end") IN
    /\ IF backup_dir.exists
       THEN /\ pam_dir' = rmtree_copytree(pam_dir, backup_dir.tree)
            /\ out' = Said(req, "Configuration restored from backup", <<>>)
       ELSE /\ UNCHANGED pam_dir
            /\ out' = Said(req, "No backup found", <<>>)
    /\ UNCHANGED <<backup_dir, procs, writers>>

\* action 'list': sorted(manager.list_services())
ListAction ==
    LET req == Req("list", <<>>, <<>>, <<>>, <<>>, <<>>, "end") IN
    /\ \E order \in iterdir(pam_dir) :
          out' = Said(req, "Available PAM services", sorted(list_services(pam_dir, order)))
    /\ UNCHANGED <<pam_dir, backup_dir, procs, writers>>

\* action 'show': manager.get_service_rules(args.service)
ShowAction(service) ==
    LET req == Req("show", service, <<>>, <<>>, <<>>, <<>>, "end") IN
    /\ IF ~exists(pam_dir, service)
       THEN out' = Said(req, "Service not found", <<>>)
       ELSE IF ~is_file(pam_dir, service)
       THEN out' = Said(req, "Error", <<>>)
       ELSE out' = Said(req, "Rules for", get_service_rules(pam_dir, service))
    /\ UNCHANGED <<pam_dir, backup_dir, procs, writers>>

\* a faulty add_rule: a service that does not exist is created with the rule
add_rule_creates(service, rule_type, control, module, args, position) ==
    LET req == Req("add", service, rule_type, control, module, args, position)
        rule == new_rule(rule_type, control, module, args)
        lines == IF exists(pam_dir, service) THEN readlines(pam_dir[service].data) ELSE <<>>
    IN
    /\ IF exists(pam_dir, service) /\ ~is_file(pam_dir, service)
       THEN /\ out' = Said(req, "Error", <<>>)
            /\ UNCHANGED pam_dir
       ELSE /\ Len(writelines(lines)) + Len(rule) <= MaxFileLen
            /\ pam_dir' = WriteFile(pam_dir, service,
                                    writelines(InsertRule(lines, rule, position)))
            /\ out' = Said(req, "Rule added", <<>>)
    /\ UNCHANGED <<backup_dir, procs, writers>>

add_rule(service, rule_type, control, module, args, position) ==
    LET req == Req("add", service, rule_type, control, module, args, position) IN
    /\ IF ~exists(pam_dir, service)
       THEN /\ out' = Said(req, "Service not found", <<>>)
            /\ UNCHANGED pam_dir
       ELSE IF ~is_file(pam_dir, service)
       THEN /\ out' = Said(req, "Error", <<>>)
            /\ UNCHANGED pam_dir
       ELSE LET rule == new_rule(rule_type, control, module, args)
                lines == readlines(pam_dir[service].data)
            IN /\ Len(pam_dir[service].data) + Len(rule) <= MaxFileLen
               /\ pam_dir' = WriteFile(pam_dir, service,
                                       writelines(InsertRule(lines, rule, position)))
               /\ out' = Said(req, "Rule added", <<>>)
    /\ UNCHANGED <<backup_dir, procs, writers>>

remove_rule(service, module) ==
    LET req == Req("remove", service, <<>>, <<>>, module, <<>>, "end") IN
    /\ IF ~exists(pam_dir, service)
       THEN /\ out' = Said(req, "Service not found", <<>>)
            /\ UNCHANGED pam_dir
       ELSE IF ~is_file(pam_dir, service)
       THEN /\ out' = Said(req, "Error", <<>>)
            /\ UNCHANGED pam_dir
       ELSE LET lines == readlines(pam_dir[service].data)
                new_lines == KeepLines(lines, module)
            IN IF Len(new_lines) = Len(lines)
               THEN /\ out' = Said(req, "No rules found with module", <<>>)
                    /\ UNCHANGED pam_dir
               ELSE /\ pam_dir' = WriteFile(pam_dir, service, writelines(new_lines))
                    /\ out' = Said(req, "Rules containing module removed", <<>>)
    /\ UNCHANGED <<backup_dir, procs, writers>>

-----------------------------------------------------------------------------
(* Spec: invocations run one after another on a configuration directory    *)
(* that its owner, the system, may change between them                     *)

login  == <<"l">>
sshd   == <<"s">>
su     == <<"s", "u">>
hidden == <<".", "l">>
nosuch == <<"u">>

Names == {login, sshd, hidden}

RuleLine    == <<"a", " ", "a", " ", "a", "\n">>
CommentLine == <<"#", "b", "\n">>

InitEntries == {Dir, File(RuleLine), File(CommentLine)}

InitDirs ==
    UNION {[S -> InitEntries] : S \in {T \in SUBSET Names : Cardinality(T) <= MaxEntries}}

NoProcs == <<>>
NoBackup == [exists |-> FALSE, tree |-> <<>>]

Init ==
    /\ pam_dir \in InitDirs
    /\ backup_dir = NoBackup
    /\ out = Idle
    /\ procs = NoProcs
    /\ writers = <<>>

\* the directory is handed to the tool, not owned by it: a service file is
\* installed into it or deleted from it by the system
SystemChange ==
    /\ IF exists(pam_dir, su)
       THEN pam_dir' = [n \in DOMAIN pam_dir \ {su} |-> pam_dir[n]]
       ELSE pam_dir' = WriteFile(pam_dir, su, CommentLine)
    /\ out' = Idle
    /\ UNCHANGED <<backup_dir, procs, writers>>

Services == {sshd, nosuch}

Next ==
    \/ backup_config
    \/ restore_backup
    \/ ListAction
    \/ SystemChange
    \/ \E service \in Services : ShowAction(service)
    \/ \E service \in Services, position \in {"start", "end"} :
          add_rule(service, <<"a">>, <<"a">>, <<"b">>, <<>>, position)
    \/ \E service \in Services, module \in {<<"a">>, <<"b">>} :
          remove_rule(service, module)

Spec == Init /\ [][Next]_vars

-----------------------------------------------------------------------------
(* SpecFile: one invocation of show, add or remove on one service file,    *)
(* for every short text of the file and for some longer ones               *)

FileChars == {"a", "#", " ", "\n"}

Texts == UNION {[1..n -> FileChars] : n \in 0..MaxTextLen}

SampleTexts ==
    { <<"a", "\t", "a", "\t", "a", "\r", "\n">>,
      <<"a", "\r", "\n", "b", "\n">>,
      <<"a", " ", "a", "\r", "a", " ", "a", " ", "b">>,
      <<" ", "a", " ", "#", " ", "a", "a", " ", "b", " ", " ", "a", "\n">>,
      <<"a", " ", "a", " ", "a", " ", "b", "\t", " ", "a", "\n", "#", "\n",
        "b", " ", "a", " ", "a", "\n">>,
      <<"#", "a", " ", "a", " ", "a", "\n", "b", " ", "a", " ", "b">> }

InitFile ==
    /\ \E text \in SampleTexts \cup Texts : pam_dir = [n \in {sshd} |-> File(text)]
    /\ backup_dir = NoBackup
    /\ out = Idle
    /\ procs = NoProcs
    /\ writers = <<>>

\* one invocation of the tool: main() runs one action and the process exits
FileShow(service) == out = Idle /\ ShowAction(service)

FileAdd(service, module, args, position) ==
    out = Idle /\ add_rule(service, <<"a">>, <<"a">>, module, args, position)

FileRemove(service, module) == out = Idle /\ remove_rule(service, module)

NextFile ==
    \/ \E service \in Services : FileShow(service)
    \/ \E service \in Services, module \in {<<"a">>, <<"b">>}, args \in {<<>>, <<"a">>},
          position \in {"start", "end"} :
          FileAdd(service, module, args, position)
    \/ \E service \in Services, module \in {<<"a">>, <<"b">>, <<"#">>, <<"a", " ", "a">>} :
          FileRemove(service, module)

SpecFile == InitFile /\ [][NextFile]_vars

-----------------------------------------------------------------------------
(* SpecRace: two invocations of add or remove at the same time; the steps  *)
(* of each are its system calls on the service file                        *)

Pids == {1, 2}

Proc(req) ==
    [pc |-> "start", req |-> req, lines |-> <<>>, new_lines |-> <<>>, msg |-> ""]

Finish(p, msg) == [procs EXCEPT ![p].pc = "done", ![p].msg = msg]

\* a write of `content` at offset 0 of a file holding `old`
WriteAt0(old, content) == content \o SubSeq(old, Len(content) + 1, Len(old))

\* service_path.exists()
CheckExists(p) ==
    /\ procs[p].pc = "start"
    /\ IF exists(pam_dir, procs[p].req.service)
       THEN procs' = [procs EXCEPT ![p].pc = "read"]
       ELSE procs' = Finish(p, "Service not found")
    /\ UNCHANGED <<pam_dir, backup_dir, out, writers>>

\* with open(service_path, 'r') as f: lines = f.readlines(), and what the
\* invocation computes from them
ReadLines(p) ==
    LET req == procs[p].req IN
    /\ procs[p].pc = "read"
    /\ IF ~exists(pam_dir, req.service) \/ ~is_file(pam_dir, req.service)
       THEN procs' = Finish(p, "Error")
       ELSE LET lines == readlines(pam_dir[req.service].data)
                new_lines ==
                    IF req.action = "add"
                    THEN InsertRule(lines,
                                    new_rule(req.type, req.control, req.module, req.args),
                                    req.position)
                    ELSE KeepLines(lines, req.module)
            IN IF req.action = "remove" /\ Len(new_lines) = Len(lines)
               THEN procs' = [procs EXCEPT ![p].pc = "done", ![p].lines = lines,
                                           ![p].new_lines = new_lines,
                                           ![p].msg = "No rules found with module"]
               ELSE procs' = [procs EXCEPT ![p].pc = "open_w", ![p].lines = lines,
                                           ![p].new_lines = new_lines]
    /\ UNCHANGED <<pam_dir, backup_dir, out, writers>>

\* a faulty open for writing: the file is opened without being truncated
OpenForWrite_no_truncate(p) ==
    /\ procs[p].pc = "open_w"
    /\ procs' = [procs EXCEPT ![p].pc = "write"]
    /\ writers' = Append(writers, p)
    /\ UNCHANGED <<pam_dir, backup_dir, out>>

\* open(service_path, 'w'): the file is truncated
OpenForWrite(p) ==
    /\ procs[p].pc = "open_w"
    /\ pam_dir' = WriteFile(pam_dir, procs[p].req.service, <<>>)
    /\ procs' = [procs EXCEPT ![p].pc = "write"]
    /\ writers' = Append(writers, p)
    /\ UNCHANGED <<backup_dir, out>>

\* f.writelines(...) and the close that flushes it, then the message
WriteLines(p) ==
    LET req == procs[p].req IN
    /\ procs[p].pc = "write"
    /\ pam_dir' = WriteFile(pam_dir, req.service,
                            WriteAt0(IF exists(pam_dir, req.service)
                                     THEN pam_dir[req.service].data ELSE <<>>,
                                     writelines(procs[p].new_lines)))
    /\ procs' = Finish(p, IF req.action = "add"
                          THEN "Rule added"
                          ELSE "Rules containing module removed")
    /\ writers' = Append(writers, p)
    /\ UNCHANGED <<backup_dir, out>>

RaceTexts == {<<>>, RuleLine, RuleLine \o CommentLine}

RaceReqs ==
    {Req("add", sshd, <<"a">>, <<"a">>, module, <<>>, position) :
        module \in {<<"a">>, <<"b">>}, position \in {"start", "end"}}
    \cup {Req("add", nosuch, <<"a">>, <<"a">>, <<"b">>, <<>>, "end")}
    \cup {Req("remove", sshd, <<>>, <<>>, module, <<>>, "end") :
        module \in {<<"a">>, <<"#">>}}

InitRace ==
    /\ \E text \in RaceTexts : pam_dir = [n \in {sshd} |-> File(text)]
    /\ backup_dir = NoBackup
    /\ out = Idle
    /\ procs \in [Pids -> {Proc(req) : req \in RaceReqs}]
    /\ writers = <<>>

NextRace ==
    \E p \in Pids :
        \/ CheckExists(p)
        \/ ReadLines(p)
        \/ OpenForWrite(p)
        \/ WriteLines(p)

SpecRace == InitRace /\ [][NextRace]_vars

-----------------------------------------------------------------------------
(* Properties of Spec: backup, restore, list, absent services *)

\* C1: backup() never overwrites an existing snapshot: a backup invocation
\* that finds the backup path present changes neither the backup directory
\* nor the live directory, whatever happened to the live directory since
\* the snapshot was taken.
BackupNeverOverwrites ==
    [][(out'.req.action = "backup" /\ backup_dir.exists)
         => /\ backup_dir' = backup_dir
            /\ pam_dir' = pam_dir
            /\ out'.msg = "Backup already exists"]_vars

\* a second backup has run on a live directory that differs from the snapshot
BackupTwiceWitness ==
    /\ out.req.action = "backup"
    /\ out.msg = "Backup already exists"
    /\ backup_dir.exists
    /\ backup_dir.tree # pam_dir

AbsentServiceNoChange ==
    [][(out'.req.action \in {"add", "remove", "show"} /\ ~exists(pam_dir, out'.req.service))
         => /\ pam_dir' = pam_dir
            /\ backup_dir' = backup_dir
            /\ out'.msg = "Service not found"
            /\ out'.val = <<>>]_vars

\* an add has run on a service that does not exist
AbsentServiceWitness ==
    /\ out.req.action = "add"
    /\ out.msg = "Service not found"
    /\ ~exists(pam_dir, out.req.service)
    /\ pam_dir # <<>>

\* C7: a restore that finds no snapshot reports "No backup found", leaves
\* the live directory as it was and creates no snapshot.
RestoreWithoutBackup ==
    [][(out'.req.action = "restore" /\ ~backup_dir.exists)
         => /\ pam_dir' = pam_dir
            /\ backup_dir' = backup_dir
            /\ out'.msg = "No backup found"]_vars

\* a restore has run with no snapshot, on a directory that holds entries
RestoreWithoutBackupWitness ==
    /\ out.req.action = "restore"
    /\ out.msg = "No backup found"
    /\ ~backup_dir.exists
    /\ pam_dir # <<>>

\* C9: the list action gives exactly the names of the files of the
\* configuration directory that do not begin with ".", each once, in
\* ascending order of name, whatever order the directory was read in.
ListIsSortedVisibleFiles ==
    out.req.action = "list" =>
        LET r == out.val IN
        /\ {r[i] : i \in 1..Len(r)}
             = {n \in DOMAIN pam_dir : pam_dir[n].kind = "file" /\ n[1] # "."}
        /\ \A i \in 1..(Len(r) - 1) : StrLess(r[i], r[i + 1])

\* a list has run on a directory with a hidden file and two visible ones
ListWitness ==
    /\ out.req.action = "list"
    /\ Len(out.val) = 2
    /\ exists(pam_dir, hidden)
    /\ pam_dir[hidden].kind = "file"

-----------------------------------------------------------------------------
(* Properties of SpecFile: parsing, adding and removing rules *)

\* the places of a line where a whitespace-separated token starts
TokenStarts(l) ==
    {i \in 1..Len(l) : ~IsSpace(l[i]) /\ (i = 1 \/ IsSpace(l[i - 1]))}

FieldCount(l) == Cardinality(TokenStarts(l))

\* the k-th token of a line: from its start up to the next whitespace
NthToken(l, k) ==
    LET i == CHOOSE i \in TokenStarts(l) :
                 Cardinality({j \in TokenStarts(l) : j <= i}) = k
        j == CHOOSE j \in i..Len(l) :
                 /\ \A m \in i..j : ~IsSpace(l[m])
                 /\ j = Len(l) \/ IsSpace(l[j + 1])
    IN SubSeq(l, i, j)

\* the tokens from the k-th on, with one space between neighbours
RECURSIVE TokensFrom(_, _)
TokensFrom(l, k) ==
    IF k > FieldCount(l) THEN <<>>
    ELSE IF k = FieldCount(l) THEN NthToken(l, k)
    ELSE NthToken(l, k) \o <<" ">> \o TokensFrom(l, k + 1)

IsRuleLine(l) == FieldCount(l) >= 3 /\ NthToken(l, 1)[1] # "#"

RuleOfLine(l) ==
    [type |-> NthToken(l, 1), control |-> NthToken(l, 2), module |-> NthToken(l, 3),
     args |-> TokensFrom(l, 4)]

\* the places of a file where a line ends: at "\n", at a "\r" that no "\n"
\* follows, and at the end of the file
LineEnds(d) ==
    {i \in 1..Len(d) :
        \/ d[i] = "\n"
        \/ d[i] = "\r" /\ (i = Len(d) \/ d[i + 1] # "\n")
        \/ i = Len(d)}

FileLine(d, k) ==
    LET end(m) == CHOOSE i \in LineEnds(d) : Cardinality({j \in LineEnds(d) : j <= i}) = m
    IN SubSeq(d, IF k = 1 THEN 1 ELSE end(k - 1) + 1, end(k))

RulesOfFile(d) ==
    LET all == [k \in 1..Cardinality(LineEnds(d)) |-> FileLine(d, k)]
        rule_lines == SelectSeq(all, IsRuleLine)
    IN [i \in 1..Len(rule_lines) |-> RuleOfLine(rule_lines[i])]

\* C8: a line parses to a Rule exactly when it has at least 3
\* whitespace-separated tokens and the first does not start with "#"; the
\* Rule's type, control and module are the first three tokens and its args
\* the later tokens joined by single spaces (empty when there are none);
\* show gives the Rules of the lines of the file, in the order of the file.
ParseAndShow ==
    \A service \in DOMAIN pam_dir :
        LET d == pam_dir[service].data IN
        /\ parse_pam_line(d) = IF IsRuleLine(d) THEN RuleOfLine(d) ELSE None
        /\ (out.req.action = "show" /\ out.req.service = service)
              => /\ out.msg = "Rules for"
                 /\ out.val = RulesOfFile(d)

\* show has run on a file of a rule with two arguments, a comment and a
\* rule without arguments
ShowWitness ==
    /\ out.req.action = "show"
    /\ Len(out.val) = 2
    /\ out.val[1].args = <<"b", " ", "a">>
    /\ out.val[2] = [type |-> <<"b">>, control |-> <<"a">>, module |-> <<"a">>, args |-> <<>>]
    /\ Len(readlines(pam_dir[out.req.service].data)) = 3

\* the Rule an add invocation asked for
RuleAsked(req) ==
    [type |-> req.type, control |-> req.control, module |-> req.module, args |-> req.args]

\* the lines of a file as bytes: each ends with its "\n", the last may not
RawLines(d) == LinesFrom(d, <<>>)

\* C3: after add_rule on an existing service, whatever the file held,
\* get_rules gives the new Rule first when the position is start and last
\* when it is end.
AddThenGetRules ==
    (out.req.action = "add" /\ out.msg = "Rule added") =>
        LET rules == get_service_rules(pam_dir, out.req.service) IN
        /\ rules # <<>>
        /\ IF out.req.position = "start"
           THEN rules[1] = RuleAsked(out.req)
           ELSE rules[Len(rules)] = RuleAsked(out.req)

\* C3 where it holds: the new Rule is first for position start; it is last
\* for position end when the file was empty or ended with a line terminator
AddThenGetRulesTerminated ==
    [][(out'.req.action = "add" /\ out'.msg = "Rule added")
         => LET old == pam_dir[out'.req.service].data
                rules == get_service_rules(pam_dir', out'.req.service) IN
            IF out'.req.position = "start"
            THEN rules # <<>> /\ rules[1] = RuleAsked(out'.req)
            ELSE (old = <<>> \/ old[Len(old)] \in {"\n", "\r"})
                    => rules # <<>> /\ rules[Len(rules)] = RuleAsked(out'.req)]_vars

\* the step wrote nothing but the file `service`, whose lines are now `lines`
OnlyFileBecomes(service, lines) ==
    /\ DOMAIN pam_dir' = DOMAIN pam_dir
    /\ \A n \in DOMAIN pam_dir \ {service} : pam_dir'[n] = pam_dir[n]
    /\ pam_dir'[service].kind = "file"
    /\ RawLines(pam_dir'[service].data) = lines

\* C5: add_rule on an existing service inserts exactly one line, the new
\* rule, at the requested end, and leaves every line the file held
\* byte-identical and in order.
AddRuleInsertsOneLine ==
    [][(out'.req.action = "add" /\ out'.msg = "Rule added")
         => LET req == out'.req IN
            OnlyFileBecomes(req.service,
                InsertRule(RawLines(pam_dir[req.service].data),
                           new_rule(req.type, req.control, req.module, req.args),
                           req.position))]_vars

\* C5 where it holds: on a file without "\r", for position start, and for
\* position end when the file is empty or ends with "\n"
AddRuleInsertsOneLineTerminated ==
    [][(out'.req.action = "add" /\ out'.msg = "Rule added")
         => LET req == out'.req
                old == pam_dir[req.service].data IN
            ( /\ \A i \in 1..Len(old) : old[i] # "\r"
              /\ req.position = "end" => (old = <<>> \/ old[Len(old)] = "\n") )
              => OnlyFileBecomes(req.service,
                    InsertRule(RawLines(old),
                               new_rule(req.type, req.control, req.module, req.args),
                               req.position))]_vars

\* C4: remove_rule on an existing service removes every line that contains
\* the module as a substring and leaves the other lines byte-identical and
\* in order; when no line contains it the file is not written.
RemoveRuleKeepsOthers ==
    [][(out'.req.action = "remove" /\ exists(pam_dir, out'.req.service))
         => LET req == out'.req
                old == RawLines(pam_dir[req.service].data)
                kept == SelectSeq(old, LAMBDA l : ~Contains(l, req.module)) IN
            /\ OnlyFileBecomes(req.service, kept)
            /\ Len(kept) = Len(old)
                  => pam_dir' = pam_dir /\ out'.msg = "No rules found with module"]_vars

\* C4 where it holds: on a file without "\r"
RemoveRuleKeepsOthersNoCR ==
    [][(out'.req.action = "remove" /\ exists(pam_dir, out'.req.service))
         => LET req == out'.req
                data == pam_dir[req.service].data
                old == RawLines(data)
                kept == SelectSeq(old, LAMBDA l : ~Contains(l, req.module)) IN
            (\A i \in 1..Len(data) : data[i] # "\r")
              => /\ OnlyFileBecomes(req.service, kept)
                 /\ Len(kept) = Len(old)
                       => pam_dir' = pam_dir /\ out'.msg = "No rules found with module"]_vars

-----------------------------------------------------------------------------
(* Properties of SpecRace: the lost update *)

\* both invocations have ended, both read the same lines of the service
\* file, and the first to open the file for writing had written before the
\* second opened it
Interleaved ==
    /\ \A p \in Pids : procs[p].pc = "done"
    /\ Len(writers) = 4
    /\ writers[1] = writers[2]
    /\ writers[3] = writers[4]
    /\ writers[1] # writers[3]
    /\ procs[1].req.service = procs[2].req.service
    /\ procs[1].lines = procs[2].lines

\* the text of the file when the change asked for by `req` alone is made to `lines`
AloneOn(req, lines) ==
    IF req.action = "add"
    THEN LET rule == new_rule(req.type, req.control, req.module, req.args) IN
         IF req.position = "start"
         THEN rule \o writelines(lines)
         ELSE writelines(lines) \o rule
    ELSE writelines(SelectSeq(lines, LAMBDA l : ~Contains(l, req.module)))

\* C10: when two invocations of add or remove on one service file both read
\* the file before either writes it, both report success and the file ends
\* up holding the last writer's change alone, made to what was read: the
\* first writer's update is lost.
LastWriterWins ==
    Interleaved =>
        LET last == writers[4] IN
        /\ \A p \in Pids :
              procs[p].msg \in {"Rule added", "Rules containing module removed"}
        /\ pam_dir[procs[last].req.service].data = AloneOn(procs[last].req, procs[last].lines)

\* the first writer added a rule, reported success, and its rule is not in the file
LostUpdateWitness ==
    /\ Interleaved
    /\ LET first == writers[1]
           req == procs[first].req IN
       /\ req.action = "add"
       /\ procs[first].msg = "Rule added"
       /\ procs[writers[4]].req.action = "add"
       /\ procs[writers[4]].req.module # req.module
       /\ \A i \in 1..Len(readlines(pam_dir[req.service].data)) :
             readlines(pam_dir[req.service].data)[i]
                # new_rule(req.type, req.control, req.module, req.args)

====
